---------------------------- MODULE Spec2Model ----------------------------
(***************************************************************************)
(* YeetSheets: the two sibling scripts yeetsheets.py and                   *)
(* process-countries.py.  Each reads a two-row template workbook and a     *)
(* workbook with one sheet per country, projects the template's cell       *)
(* coordinates onto every country sheet and writes the table as TSV.       *)
(*                                                                         *)
(* The model is the script body of either file (variable prog says which): *)
(*   template  = loadTemplate(args.template)                               *)
(*   countries = loadCountries(args.countries)                             *)
(*   results   = applyTemplate(template, countries)                        *)
(*   writeResults(results)                                                 *)
(* parseCommandLine and the workbook reader (openpyxl) are outside the     *)
(* model: the state starts with the two workbooks as the reader hands      *)
(* them over.                                                              *)
(*                                                                         *)
(* Text is a sequence of one-character strings, so that the regular        *)
(* expressions, the '%s:%i' coordinate formatting and str.format are       *)
(* computed character by character.  A cell value is a pair <<tag, text>>  *)
(* with tag "none" (an empty cell, Python None), "num" (an int, text its   *)
(* decimal digits) or "str".                                               *)
(***************************************************************************)
EXTENDS Integers, Sequences, FiniteSets, TLC

VARIABLES
    prog,       \* which script runs: "yeetsheets" or "process-countries"
    tmplFile,   \* rows of the template workbook's active sheet (wb.active.values)
    wbFile,     \* the countries workbook: its sheets in workbook order
    pc,         \* position in the script body
    template,   \* the dict loadTemplate returns, in insertion order
    countries,  \* the dict loadCountries returns, in insertion order
    results,    \* applyTemplate's local list results
    written,    \* the rows handed to writer.writerow, in order
    err         \* the exception that ended the run, if any

vars == <<prog, tmplFile, wbFile, pc, template, countries, results, written, err>>

-----------------------------------------------------------------------------
(* Program constants                                                       *)

IMAGE_COLUMN == 3
LAST_DATA_ROW == 69
MAX_NOTES == 10
MAX_FOOTNOTES == 10

\* IMAGE_FORMAT = "/Links/%s.svg", split at the %s
IMAGE_PREFIX == <<"/", "L", "i", "n", "k", "s", "/">>
IMAGE_SUFFIX == <<".", "s", "v", "g">>

-----------------------------------------------------------------------------
(* Bounds of the model                                                     *)

MaxCols == 2        \* widest template of the exhaustively enumerated family
MaxSheets == 2      \* most sheets in an enumerated countries workbook

-----------------------------------------------------------------------------
(* Text and values                                                         *)

alpha == <<"A", "B", "C", "D", "E", "F", "G", "H", "I", "J", "K", "L", "M",
           "N", "O", "P", "Q", "R", "S", "T", "U", "V", "W", "X", "Y", "Z">>

Upper == {alpha[i] : i \in 1..Len(alpha)}

DigitChars == <<"0", "1", "2", "3", "4", "5", "6", "7", "8", "9">>

Digit == {DigitChars[i] : i \in 1..10}

NonZeroDigit == Digit \ {"0"}

None == <<"none", <<>>>>

Num(digits) == <<"num", digits>>

Str(chars) == <<"str", chars>>

\* '%i' % n for n >= 0
RECURSIVE IntToStr(_)
IntToStr(n) ==
    IF n < 10 THEN <<DigitChars[n + 1]>>
    ELSE IntToStr(n \div 10) \o <<DigitChars[(n % 10) + 1]>>

\* str(value)
PyStr(value) ==
    IF value[1] = "none" THEN <<"N", "o", "n", "e">> ELSE value[2]

\* the last index i <= Len(s) such that s[from..i] are all digits (from - 1 if none)
RECURSIVE DigitRunEnd(_, _)
DigitRunEnd(s, from) ==
    IF from <= Len(s) /\ s[from] \in Digit THEN DigitRunEnd(s, from + 1)
    ELSE from - 1

HasNewline(s) == \E i \in 1..Len(s) : s[i] = "\n"

-----------------------------------------------------------------------------
(* Exceptions.  kind "none" is no exception.  The RuntimeError messages    *)
(* carry a column index, a country and a coordinate text.                  *)

NoErr == [kind |-> "none", col |-> 0, country |-> <<>>, coords |-> <<>>]

Raise(kind, col, country, coords) ==
    [kind |-> kind, col |-> col, country |-> country, coords |-> coords]

-----------------------------------------------------------------------------
(* Python dicts keep insertion order; assigning to an existing key keeps   *)
(* the key's position and replaces its value.                              *)

DictKeys(d) == [i \in 1..Len(d) |-> d[i].key]

DictHas(d, k) == \E i \in 1..Len(d) : d[i].key = k

DictSet(d, k, entry) ==
    IF DictHas(d, k)
    THEN [i \in 1..Len(d) |-> IF d[i].key = k THEN entry ELSE d[i]]
    ELSE Append(d, entry)

-----------------------------------------------------------------------------
(* The template's cell-coordinate regular expressions                      *)

\* [A-Z]:[1-9][0-9]* matched against the whole of s
CoordsFullMatch(s) ==
    /\ Len(s) >= 3
    /\ s[1] \in Upper
    /\ s[2] = ":"
    /\ s[3] \in NonZeroDigit
    /\ \A i \in 4..Len(s) : s[i] \in Digit

\* process-countries.py: re.compile(r'^[A-Z]:[1-9][0-9]*$').search(s).
\* $ matches at the end of s and also just before a final newline.
P_MATCH_CELL_COORDS(s) ==
    \/ CoordsFullMatch(s)
    \/ /\ Len(s) >= 1
       /\ s[Len(s)] = "\n"
       /\ CoordsFullMatch(SubSeq(s, 1, Len(s) - 1))

NoMatch == [ok |-> FALSE, coords |-> <<>>, format |-> None]

\* yeetsheets.py: re.compile(r'^([A-Z]:[1-9][0-9]*)(?:\((.+)\))?$').search(s),
\* with match.group(1, 2) as coords and format (None when the group is absent).
\* . matches any character but a newline; .+ is greedy, and the closing
\* parenthesis must stand at the end of s or just before a final newline.
Y_MATCH_CELL_COORDS(s) ==
    IF ~(/\ Len(s) >= 3
         /\ s[1] \in Upper
         /\ s[2] = ":"
         /\ s[3] \in NonZeroDigit)
    THEN NoMatch
    ELSE
      LET e == DigitRunEnd(s, 4)
          rest == SubSeq(s, e + 1, Len(s))
          n == Len(rest)
          close == IF n >= 1 /\ rest[n] = ")" THEN n
                   ELSE IF n >= 2 /\ rest[n] = "\n" /\ rest[n - 1] = ")" THEN n - 1
                   ELSE 0
          inner == SubSeq(rest, 2, close - 1)
      IN  IF rest = <<>> \/ rest = <<"\n">>
          THEN [ok |-> TRUE, coords |-> SubSeq(s, 1, e), format |-> None]
          ELSE IF rest[1] = "(" /\ close >= 3 /\ ~HasNewline(inner)
          THEN [ok |-> TRUE, coords |-> SubSeq(s, 1, e), format |-> Str(inner)]
          ELSE NoMatch

-----------------------------------------------------------------------------
(* loadTemplate                                                            *)

Returned(value) == [raised |-> FALSE, value |-> value, err |-> NoErr]

Raised(e) == [raised |-> TRUE, value |-> <<>>, err |-> e]

\* Mutant of Y_loadTemplateLoop: an empty spec cell skips its column
\* (continue) instead of ending the loop (break).
RECURSIVE Y_loadTemplateLoopSkip(_, _, _)
Y_loadTemplateLoopSkip(data, i, tmpl) ==
    IF i > Len(data[1]) THEN Returned(tmpl)
    ELSE
      LET label == data[1][i]
          spec == data[2][i]
      IN  IF spec = None THEN Y_loadTemplateLoopSkip(data, i + 1, tmpl)
          ELSE IF spec[1] # "str"
          THEN Raised(Raise("TypeError", i - 1, <<>>, spec[2]))
          ELSE
            LET match == Y_MATCH_CELL_COORDS(spec[2])
            IN  IF ~match.ok
                THEN Raised(Raise("Malformed", i - 1, <<>>, spec[2]))
                ELSE Y_loadTemplateLoopSkip(data, i + 1,
                        DictSet(tmpl, label,
                                [key |-> label, coords |-> match.coords,
                                 format |-> match.format]))

\* yeetsheets.py, the loop over the columns: i is the 1-based column
RECURSIVE Y_loadTemplateLoop(_, _, _)
Y_loadTemplateLoop(data, i, tmpl) ==
    IF i > Len(data[1]) THEN Returned(tmpl)
    ELSE
      LET label == data[1][i]
          spec == data[2][i]
      IN  IF spec = None THEN Returned(tmpl)                        \* break
          ELSE IF spec[1] # "str"                                   \* search(non-string)
          THEN Raised(Raise("TypeError", i - 1, <<>>, spec[2]))
          ELSE
            LET match == Y_MATCH_CELL_COORDS(spec[2])
            IN  IF ~match.ok
                THEN Raised(Raise("Malformed", i - 1, <<>>, spec[2]))
                ELSE Y_loadTemplateLoop(data, i + 1,
                        DictSet(tmpl, label,
                                [key |-> label, coords |-> match.coords,
                                 format |-> match.format]))

\* process-countries.py, the loop over the columns
RECURSIVE P_loadTemplateLoop(_, _, _)
P_loadTemplateLoop(data, i, tmpl) ==
    IF i > Len(data[1]) THEN Returned(tmpl)
    ELSE
      LET coords == data[2][i]
      IN  IF coords[1] # "str"                                      \* search(None), search(int)
          THEN Raised(Raise("TypeError", i - 1, <<>>, coords[2]))
          ELSE IF ~P_MATCH_CELL_COORDS(coords[2])
          THEN Raised(Raise("Malformed", i - 1, <<>>, coords[2]))
          ELSE P_loadTemplateLoop(data, i + 1,
                  DictSet(tmpl, data[1][i],
                          [key |-> data[1][i], coords |-> coords[2], format |-> None]))

\* the checks on the sheet's shape, the same in both scripts
TemplateShapeError(data) ==
    IF Len(data) # 2 THEN Raise("ExpectedTwoRows", Len(data), <<>>, <<>>)
    ELSE IF Len(data[1]) # Len(data[2]) THEN Raise("ColumnCountMismatch", 0, <<>>, <<>>)
    ELSE NoErr

Y_loadTemplate(data) ==
    IF TemplateShapeError(data) # NoErr THEN Raised(TemplateShapeError(data))
    ELSE Y_loadTemplateLoop(data, 1, <<>>)

P_loadTemplate(data) ==
    IF TemplateShapeError(data) # NoErr THEN Raised(TemplateShapeError(data))
    ELSE P_loadTemplateLoop(data, 1, <<>>)

-----------------------------------------------------------------------------
(* loadCountries                                                           *)

\* columnNames(): the list A..Z, AA..ZZ (0-based index i is COLUMN_NAMES[i + 1])
COLUMN_NAMES ==
    [i \in 1..(26 + 26 * 26) |->
        IF i <= 26 THEN <<alpha[i]>>
        ELSE <<alpha[((i - 27) \div 26) + 1], alpha[((i - 27) % 26) + 1]>>]

columnNames == COLUMN_NAMES

\* '%s:%i' % (columnNames()[colNum], rowNum)
CoordKey(colNum, rowNum) == columnNames[colNum + 1] \o <<":">> \o IntToStr(rowNum)

\* The cells of an input sheet.  A sheet of the countries workbook is given by
\* its title, its width, the number ndata of filled rows at its top, how those
\* are filled, and tail, the column-A values of the rows after LAST_DATA_ROW;
\* every other cell is empty.
SheetRows(sheet) ==
    IF sheet.tail = <<>> THEN sheet.ndata ELSE LAST_DATA_ROW + Len(sheet.tail)

TitleCode(title) == CHOOSE i \in 1..Len(alpha) : alpha[i] = title[1]

DataCell(sheet, colNum, rowNum) ==
    LET asNum == Num(IntToStr(100 * TitleCode(sheet.title) + 10 * (colNum + 1) + rowNum))
        asStr == Str(sheet.title \o <<"-">> \o CoordKey(colNum, rowNum))
    IN  CASE sheet.fill = "num" -> asNum
          [] sheet.fill = "str" -> asStr
          [] OTHER -> IF (colNum + rowNum) % 3 = 0 THEN None
                      ELSE IF (colNum + rowNum) % 3 = 1 THEN asNum
                      ELSE asStr

SheetCell(sheet, colNum, rowNum) ==
    IF rowNum <= sheet.ndata THEN DataCell(sheet, colNum, rowNum)
    ELSE IF rowNum > LAST_DATA_ROW /\ colNum = 0 THEN sheet.tail[rowNum - LAST_DATA_ROW]
    ELSE None

\* sheet.values: the rows top to bottom, each the cells left to right
SheetValues(sheet) ==
    [r \in 1..SheetRows(sheet) |-> [c \in 1..sheet.ncols |-> SheetCell(sheet, c - 1, r)]]

\* the inner loop of loadCountries over the cells lo..hi (0-based colNum) of one
\* row: each cell is assigned under its coordinate text, a later assignment
\* replacing an earlier one.  The loop is unfolded by halves.
RECURSIVE FlattenRow(_, _, _, _)
FlattenRow(row, rowNum, lo, hi) ==
    IF lo > hi THEN <<>>
    ELSE IF lo = hi THEN CoordKey(lo, rowNum) :> row[lo + 1]
    ELSE LET mid == (lo + hi) \div 2
         IN  FlattenRow(row, rowNum, mid + 1, hi) @@ FlattenRow(row, rowNum, lo, mid)

\* the loop over the rows lo..hi of a sheet, filling the dict countries[country]:
\* coordinate text -> value
RECURSIVE FlattenRows(_, _, _)
FlattenRows(rows, lo, hi) ==
    IF lo > hi THEN <<>>
    ELSE IF lo = hi THEN FlattenRow(rows[lo], lo, 0, Len(rows[lo]) - 1)
    ELSE LET mid == (lo + hi) \div 2
         IN  FlattenRows(rows, mid + 1, hi) @@ FlattenRows(rows, lo, mid)

FlattenSheet(rows) == FlattenRows(rows, 1, Len(rows))

\* the loop over the workbook's sheets; a later sheet with the same title
\* resets that country's dict in place
RECURSIVE loadCountriesLoop(_, _, _)
loadCountriesLoop(wb, i, acc) ==
    IF i > Len(wb) THEN acc
    ELSE loadCountriesLoop(wb, i + 1,
            DictSet(acc, wb[i].title,
                    [key |-> wb[i].title, values |-> FlattenSheet(SheetValues(wb[i]))]))

\* Mutant of loadCountries: the sheets are taken in the opposite order.
loadCountriesReversed(wb) ==
    loadCountriesLoop([i \in 1..Len(wb) |-> wb[Len(wb) + 1 - i]], 1, <<>>)

loadCountries(wb) == loadCountriesLoop(wb, 1, <<>>)

-----------------------------------------------------------------------------
(* str.format with one positional argument                                 *)

FormatFailed == [ok |-> FALSE, text |-> <<>>]

FormatOk(text) == [ok |-> TRUE, text |-> text]

\* the first index j >= from with s[j] = ch, 0 if there is none
RECURSIVE IndexOf(_, _, _)
IndexOf(s, ch, from) ==
    IF from > Len(s) THEN 0
    ELSE IF s[from] = ch THEN from
    ELSE IndexOf(s, ch, from + 1)

\* format(value, spec) for the format specs '', 'd', 's' and '.1f' (the only
\* ones the inputs below use): None takes no spec but the empty one, an int
\* takes d and .1f, a str takes s.
FormatValue(value, spec) ==
    IF spec = <<>> THEN FormatOk(PyStr(value))
    ELSE IF value[1] = "num" /\ spec = <<"d">> THEN FormatOk(value[2])
    ELSE IF value[1] = "num" /\ spec = <<".", "1", "f">> THEN FormatOk(value[2] \o <<".", "0">>)
    ELSE IF value[1] = "str" /\ spec = <<"s">> THEN FormatOk(value[2])
    ELSE FormatFailed

\* the replacement field between braces: [name][":" spec].  An empty name takes
\* the next automatic index, digits are an explicit index; only index 0 exists.
\* auto counts the automatic fields so far and is -1 once an explicit index was
\* used: the two numberings cannot be mixed.
FormatField(field, auto, value) ==
    LET colon == IndexOf(field, ":", 1)
        name == IF colon = 0 THEN field ELSE SubSeq(field, 1, colon - 1)
        spec == IF colon = 0 THEN <<>> ELSE SubSeq(field, colon + 1, Len(field))
    IN  IF name = <<>> THEN (IF auto = 0 THEN FormatValue(value, spec) ELSE FormatFailed)
        ELSE IF name = <<"0">> /\ auto <= 0 THEN FormatValue(value, spec)
        ELSE FormatFailed

FieldIsAutomatic(field) == field = <<>> \/ field[1] = ":"

\* fmt.format(value), scanning fmt from index i with out so far
RECURSIVE FormatScan(_, _, _, _, _)
FormatScan(fmt, i, auto, value, out) ==
    IF i > Len(fmt) THEN FormatOk(out)
    ELSE IF fmt[i] = "{"
    THEN IF i < Len(fmt) /\ fmt[i + 1] = "{"
         THEN FormatScan(fmt, i + 2, auto, value, Append(out, "{"))
         ELSE LET j == IndexOf(fmt, "}", i + 1)
                  field == SubSeq(fmt, i + 1, j - 1)
                  r == FormatField(field, auto, value)
              IN  IF j = 0 \/ ~r.ok THEN FormatFailed
                  ELSE FormatScan(fmt, j + 1,
                                  IF FieldIsAutomatic(field) THEN auto + 1 ELSE -1,
                                  value, out \o r.text)
    ELSE IF fmt[i] = "}"
    THEN IF i < Len(fmt) /\ fmt[i + 1] = "}"
         THEN FormatScan(fmt, i + 2, auto, value, Append(out, "}"))
         ELSE FormatFailed
    ELSE FormatScan(fmt, i + 1, auto, value, Append(out, fmt[i]))

Format(fmt, value) == FormatScan(fmt, 1, 0, value, <<>>)

-----------------------------------------------------------------------------
(* processNotes and formatImageLink (process-countries.py)                 *)

getColA(values, rowNum) ==
    LET coords == <<"A", ":">> \o IntToStr(rowNum)
    IN  IF coords \in DOMAIN values THEN values[coords] ELSE None

\* while getColA(source, rowNum) == None: rowNum += 1
\* The result is the row the loop stops at, or 0 when it never stops:
\* loadCountries numbers a sheet's rows consecutively, so once A:rowNum is
\* absent every later row is absent too and the loop reads None for ever.
RECURSIVE SkipBlankRows(_, _)
SkipBlankRows(source, rowNum) ==
    IF getColA(source, rowNum) # None THEN rowNum
    ELSE IF (<<"A", ":">> \o IntToStr(rowNum)) \notin DOMAIN source THEN 0
    ELSE SkipBlankRows(source, rowNum + 1)

\* Mutant of CollectNotes: the loop runs while len(notes) <= MAX_NOTES.
RECURSIVE CollectNotesOneMore(_, _, _)
CollectNotesOneMore(source, rowNum, notes) ==
    IF Len(notes) > MAX_NOTES \/ getColA(source, rowNum) = None
    THEN [notes |-> notes, rowNum |-> rowNum, ok |-> TRUE]
    ELSE CollectNotesOneMore(source, rowNum + 1, Append(notes, getColA(source, rowNum)))

\* while len(notes) < MAX_NOTES: ... notes.append(value); rowNum += 1
RECURSIVE CollectNotes(_, _, _)
CollectNotes(source, rowNum, notes) ==
    IF Len(notes) >= MAX_NOTES \/ getColA(source, rowNum) = None
    THEN [notes |-> notes, rowNum |-> rowNum, ok |-> TRUE]
    ELSE CollectNotes(source, rowNum + 1, Append(notes, getColA(source, rowNum)))

\* value[0] + "\t" + value[2:]
FootnoteText(value) ==
    Str(<<value[2][1], "\t">> \o SubSeq(value[2], 3, Len(value[2])))

\* while len(footnotes) < MAX_NOTES: ... footnotes.append(value[0] + "\t" + value[2:])
\* ok is FALSE when value is not subscriptable text (an int, or '')
RECURSIVE CollectFootnotes(_, _, _)
CollectFootnotes(source, rowNum, footnotes) ==
    IF Len(footnotes) >= MAX_NOTES \/ getColA(source, rowNum) = None
    THEN [notes |-> footnotes, rowNum |-> rowNum, ok |-> TRUE]
    ELSE IF getColA(source, rowNum)[1] # "str" \/ getColA(source, rowNum)[2] = <<>>
    THEN [notes |-> footnotes, rowNum |-> rowNum, ok |-> FALSE]
    ELSE CollectFootnotes(source, rowNum + 1,
                          Append(footnotes, FootnoteText(getColA(source, rowNum))))

\* while len(notes) < MAX_NOTES: notes.append(None)
PadNotes(notes) ==
    notes \o [i \in 1..(MAX_NOTES - Len(notes)) |-> None]

Outcome(kind, row, e) == [kind |-> kind, row |-> row, err |-> e]

processNotes(country, source, target) ==
    LET start == SkipBlankRows(source, LAST_DATA_ROW + 1)
        n == CollectNotes(source, start, <<>>)
        withNotes == target \o PadNotes(n.notes)
        fstart == SkipBlankRows(source, n.rowNum)
        f == CollectFootnotes(source, fstart, <<>>)
    IN  IF start = 0 THEN Outcome("hang", target, NoErr)
        ELSE IF getColA(source, n.rowNum) # None
        THEN Outcome("raise", target, Raise("MoreNotes", MAX_NOTES, country, <<>>))
        ELSE IF fstart = 0 THEN Outcome("hang", withNotes, NoErr)
        ELSE IF ~f.ok
        THEN Outcome("raise", withNotes, Raise("TypeError", 0, country, <<>>))
        ELSE IF getColA(source, f.rowNum) # None
        THEN Outcome("raise", withNotes, Raise("MoreFootnotes", MAX_NOTES, country, <<>>))
        ELSE Outcome("ok", withNotes \o PadNotes(f.notes), NoErr)

\* IMAGE_FORMAT % country
ImageLink(country) == Str(IMAGE_PREFIX \o country \o IMAGE_SUFFIX)

\* Mutant of formatImageLink: the link is appended to the row instead of
\* being stored at IMAGE_COLUMN.
formatImageLinkAppended(country, source, target) ==
    Outcome("ok", Append(target, ImageLink(country)), NoErr)

\* target[IMAGE_COLUMN] = IMAGE_FORMAT % country
formatImageLink(country, source, target) ==
    IF Len(target) <= IMAGE_COLUMN
    THEN Outcome("raise", target, Raise("IndexError", IMAGE_COLUMN, country, <<>>))
    ELSE Outcome("ok", [target EXCEPT ![IMAGE_COLUMN + 1] = ImageLink(country)], NoErr)

-----------------------------------------------------------------------------
(* applyTemplate                                                           *)

\* the loop "for v in header": the first label met a second time, if any
RECURSIVE DuplicateLabel(_, _)
DuplicateLabel(header, i) ==
    IF i > Len(header) THEN [found |-> FALSE, label |-> None]
    ELSE IF \E j \in 1..(i - 1) : header[j] = header[i]
    THEN [found |-> TRUE, label |-> header[i]]
    ELSE DuplicateLabel(header, i + 1)

NoteLabel(i) == Str(<<"N", "O", "T", "E">> \o IntToStr(i))

FootnoteLabel(i) == Str(<<"F", "O", "O", "T", "N", "O", "T", "E">> \o IntToStr(i))

Y_header(tmpl) == DictKeys(tmpl)

P_header(tmpl) ==
    DictKeys(tmpl) \o [i \in 1..MAX_NOTES |-> NoteLabel(i)]
                   \o [i \in 1..MAX_FOOTNOTES |-> FootnoteLabel(i)]

\* Mutant of Y_cell: no try/except around the formatting, a failed
\* formatting leaves the empty text.
Y_cellNoFallback(spec, value) ==
    IF spec.format # None THEN Str(Format(spec.format[2], value).text) ELSE value

\* yeetsheets.py: the value appended for one template entry
Y_cell(spec, value) ==
    IF spec.format # None /\ Format(spec.format[2], value).ok
    THEN Str(Format(spec.format[2], value).text)
    ELSE value

\* Mutant of Y_projectRow: a coordinate the country lacks yields an empty
\* value (values.get(coords)) instead of the error.
RECURSIVE Y_projectRowLenient(_, _, _, _, _)
Y_projectRowLenient(country, values, tmpl, j, row) ==
    IF j > Len(tmpl) THEN Outcome("ok", row, NoErr)
    ELSE Y_projectRowLenient(country, values, tmpl, j + 1,
            Append(row, IF tmpl[j].coords \in DOMAIN values
                        THEN Y_cell(tmpl[j], values[tmpl[j].coords])
                        ELSE None))

\* yeetsheets.py: "for spec in template.values()" for one country
RECURSIVE Y_projectRow(_, _, _, _, _)
Y_projectRow(country, values, tmpl, j, row) ==
    IF j > Len(tmpl) THEN Outcome("ok", row, NoErr)
    ELSE IF tmpl[j].coords \notin DOMAIN values
    THEN Outcome("raise", row, Raise("NoData", 0, country, tmpl[j].coords))
    ELSE Y_projectRow(country, values, tmpl, j + 1,
                      Append(row, Y_cell(tmpl[j], values[tmpl[j].coords])))

\* process-countries.py: "for coords in template.values()" for one country
RECURSIVE P_projectRow(_, _, _, _, _)
P_projectRow(country, values, tmpl, j, row) ==
    IF j > Len(tmpl) THEN Outcome("ok", row, NoErr)
    ELSE IF tmpl[j].coords \notin DOMAIN values
    THEN Outcome("raise", row, Raise("NoData", 0, country, tmpl[j].coords))
    ELSE P_projectRow(country, values, tmpl, j + 1,
                      Append(row, values[tmpl[j].coords]))

\* one iteration of "for country, values in countries.items()"
Y_countryRow(tmpl, country, values) == Y_projectRow(country, values, tmpl, 1, <<>>)

P_countryRow(tmpl, country, values) ==
    LET projected == P_projectRow(country, values, tmpl, 1, <<>>)
        noted == processNotes(country, values, projected.row)
    IN  IF projected.kind # "ok" THEN projected
        ELSE IF noted.kind # "ok" THEN noted
        ELSE formatImageLink(country, values, noted.row)

-----------------------------------------------------------------------------
(* The inputs: template sheets and countries workbooks                     *)

T(text) == Str(text)

Labels == {T(<<"N">>), T(<<"P">>)}

\* spec cells of the exhaustively enumerated templates
SpecCells ==
    { None,
      T(<<"A", ":", "1">>),
      T(<<"B", ":", "2">>),
      T(<<"A", ":", "2", "(", "{", ":", "d", "}", ")">>),
      T(<<"B", ":", "1", "(", "{", "}", "%", ")">>),
      T(<<"A", ":", "0">>) }

\* every sequence over S of length at most n
RECURSIVE SeqsUpTo(_, _)
SeqsUpTo(S, n) ==
    IF n = 0 THEN {<<>>}
    ELSE LET shorter == SeqsUpTo(S, n - 1)
         IN  shorter \cup {Append(q, x) : q \in {r \in shorter : Len(r) = n - 1}, x \in S}

\* a template sheet from its columns <<label, spec>>
TemplateSheet(cols) ==
    << [i \in 1..Len(cols) |-> cols[i][1]], [i \in 1..Len(cols) |-> cols[i][2]] >>

SmallTemplates == {TemplateSheet(cols) : cols \in SeqsUpTo(Labels \X SpecCells, MaxCols)}

\* spec cells assembled from parts, well-formed and malformed ones
SpecLetters == {<<>>, <<"A">>, <<"Z">>, <<"A", "A">>, <<"Z", "Z">>, <<"a">>}

SpecColons == {<<":">>, <<>>, <<";">>}

SpecRows == {<<>>, <<"1">>, <<"0">>, <<"1", "2">>, <<"0", "1">>, <<"1", "0">>}

SpecSuffixes ==
    { <<>>, <<"(", ")">>, <<"(", "x", ")">>, <<"(", "{", "}", ")">>, <<"(", "x">>,
      <<"x">>, <<"\n">>, <<"(", "x", ")", "\n">>, <<"(", "\n", ")">>, <<" ">> }

AssembledSpecs ==
    {T(l \o c \o r \o x) : l \in SpecLetters, c \in SpecColons, r \in SpecRows,
                           x \in SpecSuffixes}
    \cup {None, Num(<<"5">>)}

OneColumnTemplates == {TemplateSheet(<<<<T(<<"N">>), spec>>>>) : spec \in AssembledSpecs}

\* templates of distinct labels; the formats are dropped for process-countries.py,
\* whose grammar has none
WideLabels == <<T(<<"N">>), T(<<"P">>), T(<<"Q">>), T(<<"R">>), T(<<"S">>), T(<<"U">>)>>

WideCoords == << <<"A", ":", "1">>, <<"B", ":", "1">>, <<"A", ":", "2">>,
                 <<"B", ":", "2">>, <<"A", ":", "1">>, <<"B", ":", "2">> >>

WideFormats == << <<>>, <<"(", "{", ":", "d", "}", ")">>, <<>>,
                  <<"(", "<", "{", "}", ">", ")">>,
                  <<"(", "{", ":", ".", "1", "f", "}", "%", ")">>, <<"(", "{", ")">> >>

WideTemplate(p, width) ==
    TemplateSheet([i \in 1..width |->
        <<WideLabels[i],
          T(WideCoords[i] \o (IF p = "yeetsheets" THEN WideFormats[i] ELSE <<>>))>>])

WideWidths == {0, 3, 5}

\* templates with an empty spec cell among filled ones
EarlyStopTemplates ==
    {TemplateSheet([i \in 1..4 |-> <<WideLabels[i], specs[i]>>]) :
        specs \in { << T(<<"A", ":", "1">>), None, T(<<"A", ":", "0">>), T(<<"B", ":", "1">>) >>,
                    << T(<<"A", ":", "1">>), T(<<"B", ":", "1", "(", "{", "}", ")">>), None, T(<<"x">>) >>,
                    << T(<<"A", ":", "0">>), None, T(<<"A", ":", "1">>), None >>,
                    << None, T(<<"A", ":", "1">>), None, T(<<"A", ":", "1">>) >> }}

\* the notes and footnotes below LAST_DATA_ROW
NoteValue(i) == T(<<"n">> \o IntToStr(i))

FootnoteValue(i) == T(<<DigitChars[(i % 10) + 1], " ", "f">> \o IntToStr(i))

Blanks(n) == [i \in 1..n |-> None]

\* b1 blank rows, k notes, b2 blank rows, f footnotes
ColATail(b1, k, b2, f) ==
    Blanks(b1) \o [i \in 1..k |-> NoteValue(i)] \o Blanks(b2) \o [i \in 1..f |-> FootnoteValue(i)]

Sheet(title, ncols, ndata, fill, tail) ==
    [title |-> title, ncols |-> ncols, ndata |-> ndata, fill |-> fill, tail |-> tail]

\* sheet titles are distinct within a workbook
Title(i) == <<alpha[4 + i]>>

Shapes == {<<1, 1>>, <<2, 2>>}

\* the sheets a workbook of the enumerated family is made of: yeetsheets.py
\* reads no notes, process-countries.py needs them
PoolSheets(p) ==
    IF p = "yeetsheets"
    THEN {[ncols |-> sh[1], ndata |-> sh[2], fill |-> fl, tail |-> <<>>] :
            sh \in Shapes, fl \in {"num", "str"}}
    ELSE {[ncols |-> sh[1], ndata |-> sh[2], fill |-> "mixed", tail |-> tl] :
            sh \in Shapes,
            tl \in {<<>>, ColATail(1, 1, 1, 1), ColATail(0, MAX_NOTES + 1, 1, 1)}}

Titled(shapes, reversed) ==
    [i \in 1..Len(shapes) |->
        Sheet(Title(IF reversed THEN Len(shapes) + 1 - i ELSE i),
              shapes[i].ncols, shapes[i].ndata, shapes[i].fill, shapes[i].tail)]

PoolBooks(p) ==
    {Titled(shapes, rev) : shapes \in SeqsUpTo(PoolSheets(p), MaxSheets) \ {<<>>},
                           rev \in BOOLEAN}

\* the workbooks the small templates are applied to
FixedBooks(p) ==
    LET tl == IF p = "yeetsheets" THEN <<>> ELSE ColATail(1, 2, 1, 1)
    IN  { << Sheet(Title(1), 2, 2, "mixed", tl), Sheet(Title(2), 2, 2, "str", tl) >>,
          << Sheet(Title(2), 2, 2, "num", tl), Sheet(Title(1), 1, 2, "str", tl) >> }

\* one sheet with a two-letter column and no notes
LongBook == << Sheet(Title(1), 27, 1, "str", <<>>) >>

\* one sheet for every layout of the notes and footnotes
NotesBooks ==
    {<< Sheet(Title(1), 2, 2, "num", tl) >> :
        tl \in {ColATail(b1, k, b2, f) : b1 \in 0..1, k \in 0..(MAX_NOTES + 1),
                                     b2 \in 1..2, f \in 0..(MAX_NOTES + 1)}
               \cup {ColATail(0, 1, 1, 0) \o <<Num(<<"7">>)>>}}

Progs == {"yeetsheets", "process-countries"}

Inputs ==
    UNION {{<<p, t, w>> : t \in SmallTemplates, w \in FixedBooks(p)} : p \in Progs}
    \cup {<<p, t, LongBook>> : p \in Progs, t \in OneColumnTemplates}
    \cup UNION {{<<p, WideTemplate(p, n), w>> : n \in WideWidths, w \in PoolBooks(p)} :
                    p \in Progs}
    \cup {<<"process-countries", WideTemplate("process-countries", n), w>> :
            n \in WideWidths, w \in NotesBooks}
    \cup UNION {{<<p, t, w>> : t \in EarlyStopTemplates, w \in FixedBooks(p)} : p \in Progs}
    \cup {<<p, rows, LongBook>> :
            p \in Progs, rows \in {<< <<T(<<"N">>)>> >>,
                                  << <<T(<<"N">>)>>, <<T(<<"A", ":", "1">>)>>, <<None>> >>}}

-----------------------------------------------------------------------------
(* The script body                                                         *)

Init ==
    /\ \E in \in Inputs :
          /\ prog = in[1]
          /\ tmplFile = in[2]
          /\ wbFile = in[3]
    /\ pc = "loadTemplate"
    /\ template = <<>>
    /\ countries = <<>>
    /\ results = <<>>
    /\ written = <<>>
    /\ err = NoErr

loadTemplate(p, data) ==
    IF p = "yeetsheets" THEN Y_loadTemplate(data) ELSE P_loadTemplate(data)

\* template = loadTemplate(args.template)
LoadTemplate ==
    /\ pc = "loadTemplate"
    /\ LET r == loadTemplate(prog, tmplFile)
       IN  IF r.raised
           THEN /\ pc' = "failed"
                /\ err' = r.err
                /\ UNCHANGED template
           ELSE /\ pc' = "loadCountries"
                /\ template' = r.value
                /\ UNCHANGED err
    /\ UNCHANGED <<prog, tmplFile, wbFile, countries, results, written>>

\* countries = loadCountries(args.countries)
LoadCountries ==
    /\ pc = "loadCountries"
    /\ countries' = loadCountries(wbFile)
    /\ pc' = "applyTemplate"
    /\ UNCHANGED <<prog, tmplFile, wbFile, template, results, written, err>>

header(p, tmpl) == IF p = "yeetsheets" THEN Y_header(tmpl) ELSE P_header(tmpl)

\* applyTemplate up to results.append(header)
ApplyHeader ==
    /\ pc = "applyTemplate"
    /\ LET dup == DuplicateLabel(DictKeys(template), 1)
       IN  IF dup.found
           THEN /\ pc' = "failed"
                /\ err' = Raise("Duplicate", 0, <<>>, PyStr(dup.label))
                /\ UNCHANGED results
           ELSE /\ pc' = "forCountry"
                /\ results' = <<header(prog, template)>>
                /\ UNCHANGED err
    /\ UNCHANGED <<prog, tmplFile, wbFile, template, countries, written>>

countryRow(p, tmpl, country, values) ==
    IF p = "yeetsheets" THEN Y_countryRow(tmpl, country, values)
    ELSE P_countryRow(tmpl, country, values)

\* one iteration of applyTemplate's loop over countries.items(): the country
\* is the one after those that already have a row
ApplyCountry ==
    /\ pc = "forCountry"
    /\ Len(results) <= Len(countries)
    /\ LET c == countries[Len(results)]
           r == countryRow(prog, template, c.key, c.values)
       IN  CASE r.kind = "ok" ->
                  /\ results' = Append(results, r.row)
                  /\ UNCHANGED <<pc, err>>
             [] r.kind = "raise" ->
                  /\ pc' = "failed"
                  /\ err' = r.err
                  /\ UNCHANGED results
             [] OTHER ->
                  /\ pc' = "hang"
                  /\ UNCHANGED <<results, err>>
    /\ UNCHANGED <<prog, tmplFile, wbFile, template, countries, written>>

\* return results
ApplyReturn ==
    /\ pc = "forCountry"
    /\ Len(results) > Len(countries)
    /\ pc' = "writeResults"
    /\ UNCHANGED <<prog, tmplFile, wbFile, template, countries, results, written, err>>

\* writeResults(results): every row goes to writer.writerow in order
WriteResults ==
    /\ pc = "writeResults"
    /\ written' = results
    /\ pc' = "done"
    /\ UNCHANGED <<prog, tmplFile, wbFile, template, countries, results, err>>

Next ==
    \/ LoadTemplate
    \/ LoadCountries
    \/ ApplyHeader
    \/ ApplyCountry
    \/ ApplyReturn
    \/ WriteResults

Spec == Init /\ [][Next]_vars

-----------------------------------------------------------------------------
(* What the properties below read off the inputs                           *)

\* the decimal number a digit text stands for
RECURSIVE StrToInt(_)
StrToInt(digits) ==
    IF digits = <<>> THEN 0
    ELSE 10 * StrToInt(SubSeq(digits, 1, Len(digits) - 1))
         + (CHOOSE d \in 0..9 : DigitChars[d + 1] = digits[Len(digits)])

\* the cell a coordinate text addresses, when it has the form <letter>:<row>
IsCellAddress(coords) ==
    /\ Len(coords) >= 3
    /\ coords[1] \in Upper
    /\ coords[2] = ":"
    /\ coords[3] \in NonZeroDigit
    /\ \A i \in 4..Len(coords) : coords[i] \in Digit

AddressCol(coords) == (CHOOSE i \in 1..Len(alpha) : alpha[i] = coords[1]) - 1

AddressRow(coords) == StrToInt(SubSeq(coords, 3, Len(coords)))

\* the sheet has a cell at the coordinate
InSheet(sheet, coords) ==
    /\ IsCellAddress(coords)
    /\ AddressCol(coords) < sheet.ncols
    /\ AddressRow(coords) <= SheetRows(sheet)

CellAt(sheet, coords) == SheetCell(sheet, AddressCol(coords), AddressRow(coords))

\* a sequence without its repetitions, each element at its first place
RECURSIVE Dedupe(_)
Dedupe(q) ==
    IF q = <<>> THEN <<>>
    ELSE LET front == Dedupe(SubSeq(q, 1, Len(q) - 1))
         IN  IF \E i \in 1..Len(front) : front[i] = q[Len(q)] THEN front
             ELSE Append(front, q[Len(q)])

TemplateIsTwoRows == Len(tmplFile) = 2

SheetLabels == tmplFile[1]

SheetSpecs == tmplFile[2]

\* the 1-based column of the first empty spec cell, one past the last column if none
FirstEmptySpec ==
    IF \E i \in 1..Len(SheetSpecs) : SheetSpecs[i] = None
    THEN CHOOSE i \in 1..Len(SheetSpecs) :
            /\ SheetSpecs[i] = None
            /\ \A j \in 1..(i - 1) : SheetSpecs[j] # None
    ELSE Len(SheetSpecs) + 1

\* the columns loadTemplate is to take: all of them, or in yeetsheets.py those
\* left of the first empty spec
UsedColumns ==
    IF prog = "yeetsheets" THEN FirstEmptySpec - 1 ELSE Len(SheetSpecs)

TemplateLoaded == pc \notin {"loadTemplate", "failed"} \/ (pc = "failed" /\ countries # <<>>)

\* the run is inside or past applyTemplate
HasTable == pc \in {"forCountry", "writeResults", "done"}

FailedInApply == pc = "failed" /\ countries # <<>>

N == Len(template)

M == Len(wbFile)

\* the sheets that lack a templated coordinate, by workbook position
Missing(i) == \E j \in 1..N : ~InSheet(wbFile[i], template[j].coords)

SomeMissing == TemplateLoaded /\ \E i \in 1..M : Missing(i)

\* the blocks of column A below LAST_DATA_ROW: blank rows, a run of notes,
\* blank rows, a run of footnotes
RECURSIVE SkipNone(_, _)
SkipNone(q, i) == IF i <= Len(q) /\ q[i] = None THEN SkipNone(q, i + 1) ELSE i

RECURSIVE RunEnd(_, _)
RunEnd(q, i) == IF i <= Len(q) /\ q[i] # None THEN RunEnd(q, i + 1) ELSE i

NotesBlock(tail) ==
    SubSeq(tail, SkipNone(tail, 1), RunEnd(tail, SkipNone(tail, 1)) - 1)

AfterNotes(tail) == SubSeq(tail, RunEnd(tail, SkipNone(tail, 1)), Len(tail))

FootnotesBlock(tail) == NotesBlock(AfterNotes(tail))

Padded(q, n) == q \o [i \in 1..(n - Len(q)) |-> None]

-----------------------------------------------------------------------------
(* C1: table shape                                                         *)

RowWidth == IF prog = "yeetsheets" THEN N ELSE N + MAX_NOTES + MAX_FOOTNOTES

TableShape ==
    /\ Len(results) = 1 + M
    /\ \A r \in 1..Len(results) : Len(results[r]) = RowWidth

NoneMissing == TemplateLoaded /\ \A i \in 1..M : ~Missing(i)

\* C1: once loadTemplate has accepted the template (N labels) and every one of
\* the M sheets holds every templated coordinate, applyTemplate returns: it
\* neither raises nor runs for ever, and the table it returns has 1 + M rows,
\* each of N columns (yeetsheets.py) or N + 20 columns (process-countries.py).
C1_TableOfOnePlusMRows ==
    NoneMissing =>
        /\ pc \notin {"failed", "hang"}
        /\ pc \in {"writeResults", "done"} => TableShape

-----------------------------------------------------------------------------
(* C3: duplicate labels                                                    *)

DuplicateSheetLabels ==
    /\ TemplateIsTwoRows
    /\ \E i, j \in 1..Len(SheetLabels) : i < j /\ SheetLabels[i] = SheetLabels[j]

AllSpecsAreCoordinates ==
    /\ TemplateIsTwoRows
    /\ \A i \in 1..Len(SheetSpecs) :
          SheetSpecs[i][1] = "str" /\ CoordsFullMatch(SheetSpecs[i][2])

\* C3: a template whose label row holds one label in two columns (over specs
\* that are all plain coordinates) makes the run fail with the duplicate-label
\* format error before loadCountries runs: the run never gets past
\* loadTemplate, no country is read and no table is built or written.
C3_DuplicateLabelFailsBeforeCountries ==
    (DuplicateSheetLabels /\ AllSpecsAreCoordinates) =>
        /\ pc \in {"loadTemplate", "failed"}
        /\ pc = "failed" => err.kind = "Duplicate"
        /\ countries = <<>>
        /\ results = <<>>
        /\ written = <<>>

-----------------------------------------------------------------------------
(* C5: notes and footnotes within the limits                               *)

WithinLimits(sheet) ==
    /\ Len(NotesBlock(sheet.tail)) <= MAX_NOTES
    /\ Len(FootnotesBlock(sheet.tail)) <= MAX_FOOTNOTES

\* marker, tab, the text from index 2 on
SplitFootnote(value) == Str(<<value[2][1], "\t">> \o SubSeq(value[2], 3, Len(value[2])))

ExpectedNotes(sheet) ==
    Padded(NotesBlock(sheet.tail), MAX_NOTES)
    \o Padded([i \in 1..Len(FootnotesBlock(sheet.tail)) |->
                  SplitFootnote(FootnotesBlock(sheet.tail)[i])], MAX_FOOTNOTES)

TextFootnotes(sheet) ==
    \A i \in 1..Len(FootnotesBlock(sheet.tail)) : FootnotesBlock(sheet.tail)[i][1] = "str"

\* C5: in process-countries.py, for every sheet with at most 10 notes and at
\* most 10 footnotes in column A below row 69 (none at all included),
\* processNotes terminates, and the row it extends gets exactly 20 more
\* values: the notes and the transformed footnotes, each padded to 10.
C5_NotesTerminateAndPad ==
    \A i \in 1..M :
        (prog = "process-countries" /\ WithinLimits(wbFile[i]) /\ TextFootnotes(wbFile[i])) =>
            /\ ~(pc = "hang" /\ Len(results) = i)
            /\ (HasTable /\ Len(results) > i) =>
                  /\ Len(results[i + 1]) = N + MAX_NOTES + MAX_FOOTNOTES
                  /\ \A j \in 1..(MAX_NOTES + MAX_FOOTNOTES) :
                        N + j # IMAGE_COLUMN + 1 =>
                            results[i + 1][N + j] = ExpectedNotes(wbFile[i])[j]

-----------------------------------------------------------------------------
(* C7: the coordinate grammar                                              *)

\* one or more uppercase letters, a colon, a row number without a leading
\* zero; in yeetsheets.py optionally a non-empty format in parentheses
CoordinateGrammar(p, s) ==
    LET colon == IndexOf(s, ":", 1)
        e == DigitRunEnd(s, colon + 1)
    IN  /\ colon >= 2
        /\ \A i \in 1..(colon - 1) : s[i] \in Upper
        /\ Len(s) > colon
        /\ s[colon + 1] \in NonZeroDigit
        /\ \/ e = Len(s)
           \/ /\ p = "yeetsheets"
              /\ Len(s) >= e + 3
              /\ s[e + 1] = "("
              /\ s[Len(s)] = ")"

\* C7: loadTemplate raises the malformed-coordinates error only for a spec
\* outside the coordinate grammar: every spec of the grammar, the two-letter
\* coordinates loadCountries generates among them, is accepted.
C7_GrammarSpecsAccepted ==
    (pc = "failed" /\ err.kind = "Malformed") => ~CoordinateGrammar(prog, err.coords)

-----------------------------------------------------------------------------
(* C2: ordering of the output                                              *)

\* a spec text up to its format or final newline, and its format
SpecCoordsText(text) ==
    LET paren == IndexOf(text, "(", 1)
        stop == IF paren # 0 THEN paren
                ELSE IF text # <<>> /\ text[Len(text)] = "\n" THEN Len(text)
                ELSE Len(text) + 1
    IN  SubSeq(text, 1, stop - 1)

LastIndexOf(text, ch) ==
    IF \E i \in 1..Len(text) : text[i] = ch
    THEN CHOOSE i \in 1..Len(text) : text[i] = ch /\ \A j \in (i + 1)..Len(text) : text[j] # ch
    ELSE 0

SpecFormat(text) ==
    IF IndexOf(text, "(", 1) = 0 THEN None
    ELSE Str(SubSeq(text, IndexOf(text, "(", 1) + 1, LastIndexOf(text, ")") - 1))

ExpectedLabels == Dedupe(SubSeq(SheetLabels, 1, UsedColumns))

\* the used column that decides the entry of a label: the last one bearing it
ColumnOf(label) ==
    CHOOSE i \in 1..UsedColumns :
        /\ SheetLabels[i] = label
        /\ \A k \in (i + 1)..UsedColumns : SheetLabels[k] # label

\* the coordinate of the j-th template entry, read off the template sheet
EntryCoords(j) ==
    LET text == SheetSpecs[ColumnOf(ExpectedLabels[j])][2]
    IN  IF prog = "yeetsheets" THEN SpecCoordsText(text) ELSE text

EntryFormat(j) ==
    IF prog = "yeetsheets" THEN SpecFormat(SheetSpecs[ColumnOf(ExpectedLabels[j])][2])
    ELSE None

\* C2: the header lists the template's labels in the column order of the
\* template sheet; data row i is the row of the i-th sheet of the workbook (in
\* process-countries.py its link names that sheet); its j-th templated column
\* holds that sheet's cell at the j-th entry's coordinate (yeetsheets.py: when
\* the entry has no format; process-countries.py: but for index 3); the rows
\* are written in that order.
C2_OutputOrder ==
    HasTable =>
        /\ SubSeq(results[1], 1, N) = ExpectedLabels
        /\ Len(results[1]) >= N
        /\ \A i \in 1..(Len(results) - 1) :
              /\ prog = "process-countries" =>
                    results[i + 1][IMAGE_COLUMN + 1] = ImageLink(wbFile[i].title)
              /\ \A j \in 1..N :
                    (IF prog = "yeetsheets" THEN EntryFormat(j) = None
                     ELSE j # IMAGE_COLUMN + 1) =>
                        results[i + 1][j] = CellAt(wbFile[i], EntryCoords(j))
        /\ pc = "done" => written = results

C2_Witness ==
    /\ pc = "done"
    /\ M >= 2
    /\ N >= 3
    /\ wbFile[1].title = Title(2)
    /\ written[2][1] # written[3][1]
    /\ written[2][1] # written[2][3]

-----------------------------------------------------------------------------
(* C4: a missing coordinate                                                *)

FirstMissing == CHOOSE i \in 1..M : Missing(i) /\ \A k \in 1..(i - 1) : ~Missing(k)

FirstMissingCoords ==
    LET sheet == wbFile[FirstMissing]
        j == CHOOSE l \in 1..N :
                /\ ~InSheet(sheet, template[l].coords)
                /\ \A k \in 1..(l - 1) : InSheet(sheet, template[k].coords)
    IN  template[j].coords

\* C4 as stated: when some country lacks a templated coordinate, the run that
\* fails fails with the error for a missing cell.
C4_FailsWithMissingCell ==
    (SomeMissing /\ pc = "failed") => err.kind = "NoData"

\* C4 amended: when some country lacks a templated coordinate, no table is
\* returned and nothing is written; rows are built only for the countries
\* before the first such country, and when applyTemplate's loop gets to that
\* country it raises the error naming it and its first missing coordinate.
\* yeetsheets.py always gets there; process-countries.py does unless
\* processNotes raised or did not return for an earlier country.
C4_MissingCellAborts ==
    SomeMissing =>
        /\ pc \notin {"writeResults", "done"}
        /\ written = <<>>
        /\ Len(results) <= FirstMissing
        /\ (pc = "failed" /\ Len(results) = FirstMissing) =>
              err = Raise("NoData", 0, wbFile[FirstMissing].title, FirstMissingCoords)
        /\ pc = "hang" => Len(results) < FirstMissing
        /\ prog = "yeetsheets" =>
              /\ pc # "hang"
              /\ pc = "failed" => Len(results) = FirstMissing

C4_Witness ==
    /\ M >= 2
    /\ SomeMissing
    /\ pc = "failed"
    /\ err.kind = "NoData"
    /\ err.country = wbFile[2].title
    /\ Len(results) = 2
    /\ written = <<>>

-----------------------------------------------------------------------------
(* C6: overflow of the notes and footnotes blocks                          *)

NotesOverflow(sheet) == Len(NotesBlock(sheet.tail)) > MAX_NOTES

FootnotesOverflow(sheet) ==
    /\ ~NotesOverflow(sheet)
    /\ Len(FootnotesBlock(sheet.tail)) > MAX_FOOTNOTES

\* the run ended in the iteration for the i-th country
FailedAt(i) == pc = "failed" /\ Len(results) = i

\* C6: in process-countries.py the too-many-notes error is raised for a
\* country exactly when its notes block overflows (more than 10 consecutive
\* non-blank column-A values after the blank rows), and the too-many-footnotes
\* error exactly when its notes block does not and its footnotes block does:
\* a country whose block overflows never gets a row, and the iteration that
\* reaches its notes ends with that error.
C6_OverflowRaisesExactly ==
    prog = "process-countries" =>
        \A i \in 1..M :
            /\ (FailedAt(i) /\ err.kind = "MoreNotes") => NotesOverflow(wbFile[i])
            /\ (FailedAt(i) /\ err.kind = "MoreFootnotes") => FootnotesOverflow(wbFile[i])
            /\ (TemplateLoaded /\ NotesOverflow(wbFile[i])) =>
                  /\ Len(results) <= i
                  /\ ~(pc = "hang" /\ Len(results) = i)
                  /\ (FailedAt(i) /\ ~Missing(i)) =>
                        err = Raise("MoreNotes", MAX_NOTES, wbFile[i].title, <<>>)
            /\ (TemplateLoaded /\ FootnotesOverflow(wbFile[i]) /\ TextFootnotes(wbFile[i])) =>
                  /\ Len(results) <= i
                  /\ ~(pc = "hang" /\ Len(results) = i)
                  /\ (FailedAt(i) /\ ~Missing(i)) =>
                        err = Raise("MoreFootnotes", MAX_NOTES, wbFile[i].title, <<>>)

C6_Witness ==
    /\ prog = "process-countries"
    /\ FailedAt(1)
    /\ err.kind = "MoreFootnotes"
    /\ Len(NotesBlock(wbFile[1].tail)) = MAX_NOTES
    /\ Len(FootnotesBlock(wbFile[1].tail)) = MAX_FOOTNOTES + 1

-----------------------------------------------------------------------------
(* C8: formatting and its fallback (yeetsheets.py)                         *)

Unexpected == <<"unexpected", <<>>>>

\* what the formats of the inputs make of a value
Formatted(fmt, raw) ==
    CASE fmt = <<"{", ":", "d", "}">> ->
            IF raw[1] = "num" THEN Str(raw[2]) ELSE raw
      [] fmt = <<"{", ":", ".", "1", "f", "}", "%">> ->
            IF raw[1] = "num" THEN Str(raw[2] \o <<".", "0", "%">>) ELSE raw
      [] fmt = <<"{", "}", "%">> -> Str(PyStr(raw) \o <<"%">>)
      [] fmt = <<"<", "{", "}", ">">> -> Str(<<"<">> \o PyStr(raw) \o <<">">>)
      [] fmt = <<"{", "}">> -> Str(PyStr(raw))
      [] fmt = <<"x">> -> Str(<<"x">>)
      [] fmt = <<"{">> -> raw
      [] OTHER -> Unexpected

FormatFails(fmt, raw) ==
    \/ fmt = <<"{">>
    \/ fmt \in {<<"{", ":", "d", "}">>, <<"{", ":", ".", "1", "f", "}", "%">>} /\ raw[1] # "num"

\* C8: in yeetsheets.py a cell of an entry with a format holds the formatted
\* value when the formatting succeeds and the raw value when it fails, and a
\* failed formatting ends nothing: the run never hangs, the only error
\* applyTemplate raises is the one for a missing cell, and when no cell is
\* missing the table has 1 + M rows of N columns.
C8_FormatFallback ==
    prog = "yeetsheets" =>
        /\ pc # "hang"
        /\ FailedInApply => err.kind = "NoData"
        /\ (NoneMissing /\ pc \in {"writeResults", "done"}) => TableShape
        /\ HasTable =>
              \A i \in 1..(Len(results) - 1) : \A j \in 1..N :
                  /\ Len(results[i + 1]) = N
                  /\ template[j].format # None =>
                        results[i + 1][j] =
                            Formatted(template[j].format[2],
                                      CellAt(wbFile[i], template[j].coords))

\* the first country's second column failed to format and kept the raw value;
\* the later columns and the second country were still processed
C8_Witness ==
    /\ prog = "yeetsheets"
    /\ pc = "done"
    /\ M >= 2
    /\ N >= 5
    /\ template[2].format # None
    /\ FormatFails(template[2].format[2], CellAt(wbFile[1], template[2].coords))
    /\ written[2][2] = CellAt(wbFile[1], template[2].coords)
    /\ ~FormatFails(template[4].format[2], CellAt(wbFile[2], template[4].coords))
    /\ written[3][4] # CellAt(wbFile[2], template[4].coords)

-----------------------------------------------------------------------------
(* C9: the image link (process-countries.py)                               *)

\* C9 as stated: the link overwrites a templated value, so all 20 NOTE and
\* FOOTNOTE columns of every row hold what processNotes produced.
C9_NotesColumnsIntact ==
    (prog = "process-countries" /\ HasTable) =>
        \A i \in 1..(Len(results) - 1) : \A j \in 1..(MAX_NOTES + MAX_FOOTNOTES) :
            results[i + 1][N + j] = ExpectedNotes(wbFile[i])[j]

\* C9 amended: in every data row the column at index 3 holds the link of the
\* row's country, and every other column holds what the template projection
\* (the first N columns) and processNotes (the next 20) produced; so the
\* value overwritten is a templated one when the template has at least 4
\* labels, and one of the NOTE columns when it has fewer.
C9_ImageLinkAtIndex3 ==
    (prog = "process-countries" /\ HasTable) =>
        \A i \in 1..(Len(results) - 1) :
            /\ Len(results[i + 1]) = N + MAX_NOTES + MAX_FOOTNOTES
            /\ results[i + 1][IMAGE_COLUMN + 1] = ImageLink(wbFile[i].title)
            /\ \A j \in 1..(N + MAX_NOTES + MAX_FOOTNOTES) :
                  j # IMAGE_COLUMN + 1 =>
                      results[i + 1][j] =
                          IF j <= N THEN CellAt(wbFile[i], template[j].coords)
                          ELSE ExpectedNotes(wbFile[i])[j - N]

C9_Witness ==
    /\ prog = "process-countries"
    /\ pc = "done"
    /\ N > IMAGE_COLUMN + 1
    /\ M >= 2
    /\ written[3][IMAGE_COLUMN + 1] = ImageLink(wbFile[2].title)
    /\ written[3][N + 1] # None
    /\ written[3][N + MAX_NOTES + 1] # None

-----------------------------------------------------------------------------
(* C10: the early stop of loadTemplate (yeetsheets.py)                     *)

LoadTemplateFailed == pc = "failed" /\ countries = <<>>

WellFormedSpec(cell) == cell[1] = "str" /\ Y_MATCH_CELL_COORDS(cell[2]).ok

\* C10: in yeetsheets.py loadTemplate stops at the first empty spec cell
\* without raising: if the specs left of it are well formed the template is
\* returned whatever stands at or right of it; the template holds exactly the
\* labels left of it, in column order, each with the coordinate and format of
\* its column (of the last column bearing it, should a label repeat); and a
\* malformed-coordinates error is only ever about a column left of it.
C10_StopsAtFirstEmptySpec ==
    (prog = "yeetsheets" /\ TemplateIsTwoRows) =>
        /\ (\A i \in 1..(FirstEmptySpec - 1) : WellFormedSpec(SheetSpecs[i]))
              => ~LoadTemplateFailed
        /\ LoadTemplateFailed => err.col + 1 < FirstEmptySpec
        /\ TemplateLoaded =>
              /\ DictKeys(template) = ExpectedLabels
              /\ \A j \in 1..N :
                    /\ template[j].coords = EntryCoords(j)
                    /\ template[j].format = EntryFormat(j)

C10_Witness ==
    /\ prog = "yeetsheets"
    /\ pc = "loadCountries"
    /\ FirstEmptySpec = 3
    /\ N = 2
    /\ template[2].format # None
    /\ \E i \in (FirstEmptySpec + 1)..Len(SheetSpecs) :
          SheetSpecs[i] # None /\ ~WellFormedSpec(SheetSpecs[i])

=============================================================================
